---- MODULE Spec2Model ----
(***************************************************************************)
(* Route Time Estimator (src/script.js): the GPX processing pipeline       *)
(* (gap fill, resample, median filter, deadband filter, per-step time      *)
(* model, cumulative arrays) and the planning session built on it          *)
(* (waypoints, markers, per-leg overrides, save / load of plans).          *)
(*                                                                         *)
(* Numbers.  The program computes in floating point; the model computes    *)
(* exactly, in integers:                                                   *)
(*   - positions are points of one meridian, lat in metres of arc, so the  *)
(*     great-circle distance of two points is |lat1 - lat2| metres;        *)
(*   - a distance in km is kept as its number of metres (km * 1000);       *)
(*   - an elevation in metres is kept as metres * EleScale;                *)
(*   - a time in hours is kept as hours * TicksPerHour.                    *)
(* Program indices are 0-based and stay 0-based in the state; At(s, i) is  *)
(* the program's s[i].  A value that may be null is <<>> (null) or <<v>>.  *)
(***************************************************************************)
EXTENDS Integers, Sequences, FiniteSets, TLC

VARIABLES
    fields,          \* the settings form: the numeric inputs as typed
    reads,           \* calculate runs suspended in readFileAsText
    trackLatLngs,    \* [[lat, lon], ...] (resampled)
    trackBreakIdx,   \* segment starts
    cumDistKm,       \* prefix sums
    cumAscentM,
    cumDescentM,
    cumTimeH,
    debugRows,       \* the per-step rows of the last run
    calcSettings,    \* the settings the last run read from the form
    roadbookIdx,     \* indices into trackLatLngs
    roadbookLabels,  \* pointIndex -> label
    legLabels,       \* "a|b" -> custom leg name
    legStopsMin,     \* "a|b" -> minutes
    legCondPct,      \* "a|b" -> percent
    legCritical,     \* "a|b" -> TRUE / FALSE
    markers,         \* the markers on the map: [__idx, __locked]
    legTable,        \* the rows of the rendered roadbooks table
    message,         \* what the last handler told the user ("" when nothing)
    savedPlan,       \* the plan file Save wrote
    fnPhase, fnArgs, fnResult   \* a function applied on its own

trackVars == <<trackLatLngs, trackBreakIdx, cumDistKm, cumAscentM, cumDescentM,
               cumTimeH, debugRows, calcSettings>>
roadbookVars == <<roadbookIdx, roadbookLabels, markers>>
legVars == <<legLabels, legStopsMin, legCondPct, legCritical>>
fnVars == <<fnPhase, fnArgs, fnResult>>
sessionVars == <<fields, reads, trackVars, roadbookVars, legVars, legTable, message,
                 savedPlan>>
vars == <<sessionVars, fnVars>>

----------------------------------------------------------------------------
(* JavaScript values *)

Null == <<>>
Some(v) == <<v>>
IsNull(x) == x = Null
Val(x) == x[1]

\* a ?? b
Coalesce(a, b) == IF IsNull(a) THEN b ELSE a

\* s[i] of a JavaScript array: undefined (null to ??) outside the array
At(s, i) == s[i + 1]
AtOrNull(s, i) == IF i >= 0 /\ i < Len(s) THEN Some(s[i + 1]) ELSE Null

Abs(x) == IF x < 0 THEN 0 - x ELSE x
Max(a, b) == IF a >= b THEN a ELSE b
Min(a, b) == IF a <= b THEN a ELSE b
\* Math.sign
Sign(x) == IF x > 0 THEN 1 ELSE IF x < 0 THEN 0 - 1 ELSE 0

Last(s) == s[Len(s)]

RECURSIVE SumSeq(_)
SumSeq(s) == IF s = <<>> THEN 0 ELSE s[1] + SumSeq(Tail(s))

----------------------------------------------------------------------------
(* Units *)

\* haversineKm(...) * 1000 is metres
MetresPerKm == 1000
\* elevations are kept in 1/EleScale metres: interpolation over gaps of up to
\* four metres and the median's average of two stay whole numbers
EleScale == 2 * 3 * 4
\* one hour; a multiple of everything the time model divides by
TicksPerHour == 432 * 1000

----------------------------------------------------------------------------
(* Utils *)

clamp(x, a, b) == Max(a, Min(b, x))

clampToOdd(val, minOdd, maxOdd) ==
    LET v == clamp(val, minOdd, maxOdd)
    IN  IF v % 2 = 0 THEN v + (IF v >= maxOdd THEN 0 - 1 ELSE 1) ELSE v

\* parseFloat(v) of a numeric field, then n > 0 ? n : d
toPosNum(v, d) == IF v > 0 THEN v ELSE d
toNonNegNum(v, d) == IF v >= 0 THEN v ELSE d

\* distance of two points in metres (haversineKm * 1000); every point of the
\* model lies on one meridian
haversineKm(lat1, lon1, lat2, lon2) == Abs(lat2 - lat1)

----------------------------------------------------------------------------
(* fillElevationOnPoints *)

RECURSIVE FillForward(_, _, _)
FillForward(pts, i, last) ==
    IF i > Len(pts) THEN pts
    ELSE IF IsNull(pts[i].ele)
         THEN FillForward([pts EXCEPT ![i].ele = last], i + 1, last)
         ELSE FillForward(pts, i + 1, pts[i].ele)

RECURSIVE FillBackward(_, _, _)
FillBackward(pts, i, next) ==
    IF i < 1 THEN pts
    ELSE IF IsNull(pts[i].ele)
         THEN FillBackward([pts EXCEPT ![i].ele = next], i - 1, next)
         ELSE FillBackward(pts, i - 1, pts[i].ele)

fillElevationOnPoints(points) ==
    FillBackward(FillForward(points, 1, Null), Len(points), Null)

----------------------------------------------------------------------------
(* resampleByDistance *)

RECURSIVE ArcCum(_, _, _)
ArcCum(points, i, cum) ==
    IF i > Len(points) THEN cum
    ELSE ArcCum(points, i + 1,
                Append(cum, Last(cum) + haversineKm(points[i - 1].lat, points[i - 1].lon,
                                                    points[i].lat, points[i].lon)))

\* for (let s = 0; s <= total; s += spacingM) targets.push(s);
RECURSIVE TargetsLoop(_, _, _, _)
TargetsLoop(s, total, spacingM, targets) ==
    IF s <= total THEN TargetsLoop(s + spacingM, total, spacingM, Append(targets, s))
    ELSE targets

ResampleTargets(total, spacingM) ==
    LET targets == TargetsLoop(0, total, spacingM, <<>>)
    IN  IF Last(targets) < total THEN Append(targets, total) ELSE targets

\* while (j < cum.length && cum[j] < t) j++;
RECURSIVE AdvanceJ(_, _, _)
AdvanceJ(cum, j, t) ==
    IF j < Len(cum) /\ At(cum, j) < t THEN AdvanceJ(cum, j + 1, t) ELSE j

\* p0.ele + a * (p1.ele - p0.ele) with a = clamp((t - t0) / denom, 0, 1)
Lerp(x0, x1, num, denom) ==
    LET n == clamp(num, 0, denom)
    IN  x0 + (n * (x1 - x0)) \div denom

InterpEle(p0, p1, num, denom) ==
    IF ~IsNull(p0.ele) /\ ~IsNull(p1.ele)
    THEN Some(Lerp(Val(p0.ele), Val(p1.ele), num, denom))
    ELSE IF ~IsNull(p0.ele) THEN p0.ele ELSE p1.ele

RECURSIVE ResampleLoop(_, _, _, _, _, _)
ResampleLoop(points, cum, targets, k, j0, out) ==
    IF k > Len(targets) THEN out
    ELSE LET t == targets[k]
             j == AdvanceJ(cum, j0, t)
         IN  IF j >= Len(cum)
             THEN ResampleLoop(points, cum, targets, k + 1, j, Append(out, Last(points)))
             ELSE LET t0 == At(cum, j - 1)
                      t1 == At(cum, j)
                      p0 == At(points, j - 1)
                      p1 == At(points, j)
                      denom == IF t1 - t0 = 0 THEN 1 ELSE t1 - t0
                      pt == [lat |-> Lerp(p0.lat, p1.lat, t - t0, denom),
                             lon |-> Lerp(p0.lon, p1.lon, t - t0, denom),
                             ele |-> InterpEle(p0, p1, t - t0, denom)]
                  IN  ResampleLoop(points, cum, targets, k + 1, j, Append(out, pt))

resampleByDistance(points, spacingM) ==
    LET cum == ArcCum(points, 2, <<0>>)
        total == Last(cum)
    IN  IF total = 0 THEN SubSeq(points, 1, Min(Len(points), 2))
        ELSE ResampleLoop(points, cum, ResampleTargets(total, spacingM), 1, 1, <<>>)

----------------------------------------------------------------------------
(* medianFilter *)

RECURSIVE InsertSorted(_, _)
InsertSorted(s, x) ==
    IF s = <<>> THEN <<x>>
    ELSE IF x <= s[1] THEN <<x>> \o s
    ELSE <<s[1]>> \o InsertSorted(Tail(s), x)

\* vals.sort((a, b) => a - b)
RECURSIVE SortNum(_)
SortNum(s) == IF s = <<>> THEN <<>> ELSE InsertSorted(SortNum(Tail(s)), s[1])

RECURSIVE WindowVals(_, _, _)
WindowVals(arr, k, end) ==
    IF k > end THEN <<>>
    ELSE (IF IsNull(At(arr, k)) THEN <<>> ELSE <<Val(At(arr, k))>>)
         \o WindowVals(arr, k + 1, end)

MedianAt(arr, i, half) ==
    LET n == Len(arr)
        start == Max(0, i - half)
        end == Min(n - 1, i + half)
        vals == SortNum(WindowVals(arr, start, end))
        mid == Len(vals) \div 2
    IN  IF vals = <<>> THEN Null
        ELSE IF Len(vals) % 2 = 1 THEN Some(At(vals, mid))
        ELSE Some((At(vals, mid - 1) + At(vals, mid)) \div 2)

medianFilter(arr, win) ==
    [i \in 1..Len(arr) |-> MedianAt(arr, i - 1, win \div 2)]

----------------------------------------------------------------------------
(* cumulativeDeadbandFilter *)

\* while (first == null && i0 < n - 1) first = elev[++i0];
RECURSIVE FirstIndex(_, _)
FirstIndex(elev, i0) ==
    IF IsNull(At(elev, i0)) /\ i0 < Len(elev) - 1 THEN FirstIndex(elev, i0 + 1) ELSE i0

\* const prev = elev[i - 1] ?? elev[i] ?? out[i - 1];
DeadbandPrev(elev, out, i) ==
    Val(Coalesce(At(elev, i - 1), Coalesce(At(elev, i), At(out, i - 1))))

\* the slip of a filter that forgets to hold: inside the band it passes the
\* sample through
RECURSIVE DeadbandLoop_NoHold(_, _, _, _, _)
DeadbandLoop_NoHold(elev, deadband, i, cumErr0, out) ==
    IF i >= Len(elev) THEN out
    ELSE LET prev == DeadbandPrev(elev, out, i)
             cur == Val(Coalesce(At(elev, i), Some(prev)))
             delta == cur - prev
             cumErr == cumErr0 + delta
             held == Val(At(out, i - 1))
         IN  IF Abs(cumErr) > deadband
             THEN DeadbandLoop_NoHold(elev, deadband, i + 1, Sign(cumErr) * deadband,
                               [out EXCEPT ![i + 1] =
                                   Some(held + (cumErr - Sign(cumErr) * deadband))])
             ELSE DeadbandLoop_NoHold(elev, deadband, i + 1, cumErr,
                               [out EXCEPT ![i + 1] = Some(cur)])

RECURSIVE DeadbandLoop(_, _, _, _, _)
DeadbandLoop(elev, deadband, i, cumErr0, out) ==
    IF i >= Len(elev) THEN out
    ELSE LET prev == DeadbandPrev(elev, out, i)
             cur == Val(Coalesce(At(elev, i), Some(prev)))
             delta == cur - prev
             cumErr == cumErr0 + delta
             held == Val(At(out, i - 1))
         IN  IF Abs(cumErr) > deadband
             THEN DeadbandLoop(elev, deadband, i + 1, Sign(cumErr) * deadband,
                               [out EXCEPT ![i + 1] =
                                   Some(held + (cumErr - Sign(cumErr) * deadband))])
             ELSE DeadbandLoop(elev, deadband, i + 1, cumErr,
                               [out EXCEPT ![i + 1] = Some(held)])

cumulativeDeadbandFilter(elev, deadband) ==
    IF Len(elev) = 0 THEN <<>>
    ELSE LET i0 == FirstIndex(elev, 0)
             first == At(elev, i0)
         IN  IF IsNull(first) THEN elev
             ELSE LET out0 == [k \in 1..Len(elev) |-> IF k = i0 + 1 THEN first ELSE Null]
                      out == DeadbandLoop(elev, deadband, i0 + 1, 0, out0)
                  IN  [k \in 1..Len(elev) |-> IF k - 1 < i0 THEN At(out, i0) ELSE out[k]]

----------------------------------------------------------------------------
(* The settings form and the GPX files *)

\* the defaults of the calculate handler; the downhill factor is kept in
\* sixths, 0.6667 as 4/6
DefaultSpeedFlatKmh == 4
DefaultSpeedVertMh == 300
DefaultDownhillFactor == 4
DhfDen == 2 * 3

\* what the user may have typed: a number, or something parseFloat reads as
\* NaN (0 - 1 here), and the importRoadbooks checkbox
NotANumber == 0 - 1
FieldChoices ==
    { [speedFlat |-> 4, speedVert |-> 300, downhillFactor |-> 3,
       spacingM |-> 2, smoothWinM |-> 5, elevDeadbandM |-> 0, importRoadbooks |-> TRUE],
      [speedFlat |-> NotANumber, speedVert |-> 150, downhillFactor |-> NotANumber,
       spacingM |-> NotANumber, smoothWinM |-> NotANumber, elevDeadbandM |-> NotANumber,
       importRoadbooks |-> FALSE] }

\* a GPX document as the DOM parser reads it: parsererror or not, the trkseg
\* elements with their trkpt, the rtept and the wpt elements.  lat = Null is
\* an attribute parseFloat turns into NaN, ele = Null a missing <ele>,
\* name = "" a point without <name>, <cmt> and <sym>.
Pt(lat, ele, name) == [lat |-> lat, lon |-> Some(0), ele |-> ele, name |-> name]
M(m) == Some(m * EleScale)

\* three segments: the first has one elevation, the second climbs and has a
\* point without latitude, the third is a single point
FileTwoSegments ==
    [parsererror |-> FALSE,
     trkseg |-> << << Pt(Some(0), Null, ""), Pt(Some(1), M(2), "") >>,
                   << Pt(Some(4), M(0), "Camp"), Pt(Null, M(9), ""), Pt(Some(8), M(2), "") >>,
                   << Pt(Some(9), M(1), "") >> >>,
     rtept |-> <<>>,
     wpt |-> <<>>]
\* one segment, steeply up and gently down again, and one <wpt>
FileUpDown ==
    [parsererror |-> FALSE,
     trkseg |-> << << Pt(Some(0), M(0), ""), Pt(Some(4), M(4), ""),
                      Pt(Some(8), Some(4 * EleScale - 8), "") >> >>,
     rtept |-> <<>>,
     wpt |-> << Pt(Some(2), Null, "Hut") >>]
\* a route without track
FileRoute ==
    [parsererror |-> FALSE,
     trkseg |-> <<>>,
     rtept |-> << Pt(Some(0), M(1), "A"), Pt(Some(0), M(3), ""), Pt(Some(0), M(3), "B") >>,
     wpt |-> <<>>]
\* a document that is not XML
FileMalformed ==
    [parsererror |-> TRUE, trkseg |-> <<>>, rtept |-> <<>>, wpt |-> <<>>]

Files == {FileTwoSegments, FileUpDown, FileRoute, FileMalformed}

\* a track whose only segment keeps a single point: the other has no latitude
FileLonePoint ==
    [parsererror |-> FALSE,
     trkseg |-> << << Pt(Some(3), M(1), "Col"), Pt(Null, M(2), "") >> >>,
     rtept |-> <<>>,
     wpt |-> <<>>]

\* Number.isFinite(p.lat) && Number.isFinite(p.lon)
FinitePt(p) == ~IsNull(p.lat) /\ ~IsNull(p.lon)
ParsedPts(pts) ==
    LET kept == SelectSeq(pts, FinitePt)
    IN  [i \in 1..Len(kept) |->
            [lat |-> Val(kept[i].lat), lon |-> Val(kept[i].lon), ele |-> kept[i].ele]]

AtLeastTwo(arr) == Len(arr) >= 2

parseGPXToSegments(gpx) ==
    IF gpx.parsererror THEN <<>>
    ELSE IF Len(gpx.trkseg) > 0
    THEN SelectSeq([i \in 1..Len(gpx.trkseg) |-> ParsedPts(gpx.trkseg[i])], AtLeastTwo)
    ELSE LET rtepts == ParsedPts(gpx.rtept)
         IN  IF Len(rtepts) >= 2 THEN <<rtepts>> ELSE <<>>

RECURSIVE Flatten(_)
Flatten(ss) == IF ss = <<>> THEN <<>> ELSE ss[1] \o Flatten(Tail(ss))

Named(p) == p.name # ""
NamedPt(kept) ==
    [i \in 1..Len(kept) |->
        [lat |-> Val(kept[i].lat), lon |-> Val(kept[i].lon), name |-> kept[i].name]]

\* wpt, then rtept, then the trkpt that carry a name
parseGPXRoadbooks(gpx) ==
    IF gpx.parsererror THEN <<>>
    ELSE NamedPt(SelectSeq(gpx.wpt, FinitePt))
         \o NamedPt(SelectSeq(gpx.rtept, FinitePt))
         \o NamedPt(SelectSeq(SelectSeq(Flatten(gpx.trkseg), Named), FinitePt))

----------------------------------------------------------------------------
(* calcBtn click: the per-step time model and the cumulative arrays *)

\* Math.round(a / b) for a, b > 0
RoundDiv(a, b) == (2 * a + b) \div (2 * b)

\* the numbers the handler reads from the form before it awaits the file
ReadSettings(f) ==
    [speedFlatKmh |-> toPosNum(f.speedFlat, DefaultSpeedFlatKmh),
     speedVertMh |-> toPosNum(f.speedVert, DefaultSpeedVertMh),
     downhillFactor |-> toPosNum(f.downhillFactor, DefaultDownhillFactor),
     spacingM |-> clamp(toPosNum(f.spacingM, 5), 1, 100),
     smoothWinM |-> clamp(toPosNum(f.smoothWinM, 35), 5, 500),
     elevDeadbandM |-> clamp(toNonNegNum(f.elevDeadbandM, 2), 0, 20)]

\* null - null is 0 in JavaScript
Num(x) == IF IsNull(x) THEN 0 ELSE Val(x)

\* distKm / speedFlatKmh, in ticks (distKm in metres)
FlatTimeH(distKm, speedFlatKmh) ==
    (distKm * TicksPerHour) \div (MetresPerKm * speedFlatKmh)

\* vMag > 0 ? vMag / speedVertMh : 0, in ticks (vMag in 1/EleScale metres)
VertTimeH(ascentM, descentM, speedVertMh) ==
    LET vMag == IF ascentM > 0 THEN ascentM ELSE descentM
    IN  IF vMag > 0 THEN (vMag * TicksPerHour) \div (EleScale * speedVertMh) ELSE 0

\* the slip of adding the lesser axis in full
SegTimeH_Additive(h, v, ascentM, descentM, downhillFactor) ==
    LET t == Max(h, v) + Min(h, v)
    IN  IF descentM > 0 /\ descentM >= ascentM THEN (t * downhillFactor) \div DhfDen ELSE t

\* let segTimeH = Math.max(h, v) + 0.5 * Math.min(h, v);
\* if (descentM > 0 && descentM >= ascentM) segTimeH *= downhillFactor;
SegTimeH(h, v, ascentM, descentM, downhillFactor) ==
    LET t == Max(h, v) + Min(h, v) \div 2
    IN  IF descentM > 0 /\ descentM >= ascentM THEN (t * downhillFactor) \div DhfDen ELSE t

\* the slip of keeping the sign of a drop
DescentOf_Signed(dEleF) == IF dEleF < 0 THEN dEleF ELSE 0

\* const descentM = dEleF < 0 ? -dEleF : 0;
DescentOf(dEleF) == IF dEleF < 0 THEN 0 - dEleF ELSE 0

\* one step of the loop over resampled[i - 1], resampled[i] (i is 0-based)
StepRow(resampled, elevFiltered, i, curIdx, st) ==
    LET p1 == At(resampled, i - 1)
        p2 == At(resampled, i)
        distKm == haversineKm(p1.lat, p1.lon, p2.lat, p2.lon)
        dEleF == Num(Coalesce(At(elevFiltered, i), At(elevFiltered, i - 1)))
                 - Num(Coalesce(At(elevFiltered, i - 1), At(elevFiltered, i)))
        ascentM == IF dEleF > 0 THEN dEleF ELSE 0
        descentM == DescentOf(dEleF)
        h == FlatTimeH(distKm, st.speedFlatKmh)
        v == VertTimeH(ascentM, descentM, st.speedVertMh)
    IN  [i |-> curIdx, distKm |-> distKm, ascentM |-> ascentM, descentM |-> descentM,
         segTimeH |-> SegTimeH(h, v, ascentM, descentM, st.downhillFactor)]

\* the accumulator of the loop over the segments
EmptyTrack ==
    [trackLatLngs |-> <<>>, trackBreakIdx |-> <<>>,
     cumDistKm |-> <<0>>, cumAscentM |-> <<0>>, cumDescentM |-> <<0>>, cumTimeH |-> <<0>>,
     debugRows |-> <<>>, globalIdxOffset |-> 0]

\* the slip of starting a later segment from zero instead of carrying forward
CarryForward_Zero(cum) == Append(cum, 0)

\* the slip of pushing nothing at a seam
CarryForward_Skip(cum) == cum

\* cum.push(cum[cum.length - 1])
CarryForward(cum) == Append(cum, Last(cum))

\* the slip of pushing the step's value instead of the running total
PushSum_StepOnly(cum, x) == Append(cum, x)

\* cum.push(cum[cum.length - 1] + x)
PushSum(cum, x) == Append(cum, Last(cum) + x)

RECURSIVE AccumulateSteps(_, _, _, _, _)
AccumulateSteps(acc, resampled, elevFiltered, i, st) ==
    IF i >= Len(resampled) THEN acc
    ELSE LET row == StepRow(resampled, elevFiltered, i, acc.globalIdxOffset + i, st)
         IN  AccumulateSteps(
                 [acc EXCEPT !.cumDistKm = PushSum(@, row.distKm),
                             !.cumAscentM = PushSum(@, row.ascentM),
                             !.cumDescentM = PushSum(@, row.descentM),
                             !.cumTimeH = PushSum(@, row.segTimeH),
                             !.debugRows = Append(@, row)],
                 resampled, elevFiltered, i + 1, st)

\* the body of for (const pts of segments)
AppendSegment(acc, pts, st) ==
    IF Len(pts) < 2 THEN acc
    ELSE
    LET filled == fillElevationOnPoints(pts)
        resampled == resampleByDistance(filled, st.spacingM)
    IN  IF Len(resampled) < 2 THEN acc
        ELSE
        LET winSamples == clampToOdd(Max(3, RoundDiv(st.smoothWinM, st.spacingM)), 3, 999)
            elev == [k \in 1..Len(resampled) |-> resampled[k].ele]
            elevSmooth == medianFilter(elev, winSamples)
            elevFiltered == cumulativeDeadbandFilter(elevSmooth, st.elevDeadbandM * EleScale)
            seam == Len(acc.trackLatLngs) > 0
            latlngs == [k \in 1..Len(resampled) |-> <<resampled[k].lat, resampled[k].lon>>]
            started ==
                [acc EXCEPT
                    !.trackBreakIdx = Append(@, Len(acc.trackLatLngs)),
                    !.cumDistKm = IF seam THEN CarryForward(@) ELSE @,
                    !.cumAscentM = IF seam THEN CarryForward(@) ELSE @,
                    !.cumDescentM = IF seam THEN CarryForward(@) ELSE @,
                    !.cumTimeH = IF seam THEN CarryForward(@) ELSE @,
                    !.trackLatLngs = @ \o latlngs]
            stepped == AccumulateSteps(started, resampled, elevFiltered, 1, st)
        IN  [stepped EXCEPT !.globalIdxOffset = @ + Len(resampled)]

RECURSIVE BuildTrack(_, _, _)
BuildTrack(acc, segments, st) ==
    IF segments = <<>> THEN acc
    ELSE BuildTrack(AppendSegment(acc, segments[1], st), Tail(segments), st)

----------------------------------------------------------------------------
(* Roadbooks (add / remove / labels) *)

\* a JavaScript Map
MapHas(m, k) == k \in DOMAIN m
MapGet(m, k) == IF k \in DOMAIN m THEN Some(m[k]) ELSE Null
MapSet(m, k, v) == [x \in (DOMAIN m) \cup {k} |-> IF x = k THEN v ELSE m[x]]
MapDelete(m, k) == [x \in (DOMAIN m) \ {k} |-> m[x]]
EmptyMap == <<>>

Includes(arr, x) == \E k \in 1..Len(arr) : arr[k] = x
\* arr.indexOf(x), 0-based, for x in arr
IndexOf(arr, x) == (CHOOSE k \in 1..Len(arr) : arr[k] = x /\ \A j \in 1..(k - 1) : arr[j] # x) - 1
RemoveAt(arr, pos) == SubSeq(arr, 1, pos) \o SubSeq(arr, pos + 2, Len(arr))

\* a label that is neither undefined nor ""
Truthy(x) == ~IsNull(x) /\ Val(x) # ""

HashLabel(idx) == "#" \o ToString(idx)

\* the roadbook state a handler works on: rb.idx, rb.labels, rb.markers
setRoadbookLabel(rb, idx, newLabel) ==
    IF ~Includes(rb.idx, idx) THEN rb
    ELSE [rb EXCEPT !.labels = MapSet(@, idx, IF newLabel # "" THEN newLabel ELSE HashLabel(idx))]

\* roadbookIdx.push(i); roadbookIdx.sort((a, b) => a - b);
PushIndex(arr, i) == SortNum(Append(arr, i))

\* addRoadbookIndex(i, { label, locked }) on a track of n points, up to the
\* render
addRoadbookIndex(rb, n, i0, label, locked) ==
    LET i == Max(0, Min(n - 1, i0))
    IN  IF Includes(rb.idx, i)
        THEN IF label # "" /\ (~Truthy(MapGet(rb.labels, i)) \/ rb.labels[i] = HashLabel(i))
             THEN setRoadbookLabel(rb, i, label)
             ELSE rb
        ELSE LET idx == PushIndex(rb.idx, i)
                 initial == IF label # "" THEN label
                            ELSE IF Truthy(MapGet(rb.labels, i)) THEN rb.labels[i]
                            ELSE IF i = 0 THEN "Start"
                            ELSE IF i = n - 1 THEN "Finish"
                            ELSE "WP " \o ToString(IndexOf(idx, i))
             IN  [idx |-> idx,
                  labels |-> MapSet(rb.labels, i, initial),
                  markers |-> Append(rb.markers, [idx |-> i, locked |-> locked])]

\* the slip of leaving out roadbookIdx = [], roadbookLabels.clear() and
\* clearMarkers()
EmptyRoadbook_Stale == [idx |-> roadbookIdx, labels |-> roadbookLabels, markers |-> markers]

EmptyRoadbook == [idx |-> <<>>, labels |-> EmptyMap, markers |-> <<>>]

\* nearestIndexOnTrack: the first index at the least distance
nearestIndexOnTrack(la, lo, latlngs) ==
    IF latlngs = <<>> THEN 0
    ELSE (CHOOSE k \in 1..Len(latlngs) :
             /\ \A j \in 1..Len(latlngs) :
                   haversineKm(la, lo, latlngs[k][1], latlngs[k][2])
                       <= haversineKm(la, lo, latlngs[j][1], latlngs[j][2])
             /\ \A j \in 1..(k - 1) :
                   haversineKm(la, lo, latlngs[j][1], latlngs[j][2])
                       > haversineKm(la, lo, latlngs[k][1], latlngs[k][2])) - 1

\* import roadbooks from the GPX file
RECURSIVE ImportRoadbooks(_, _, _)
ImportRoadbooks(rb, waypoints, latlngs) ==
    IF waypoints = <<>> THEN rb
    ELSE LET wp == waypoints[1]
             idx == nearestIndexOnTrack(wp.lat, wp.lon, latlngs)
             next == IF ~Includes(rb.idx, idx)
                     THEN addRoadbookIndex(rb, Len(latlngs), idx,
                                           IF wp.name # "" THEN wp.name ELSE "WP", FALSE)
                     ELSE IF ~Truthy(MapGet(rb.labels, idx)) /\ wp.name # ""
                     THEN setRoadbookLabel(rb, idx, wp.name)
                     ELSE rb
         IN  ImportRoadbooks(next, Tail(waypoints), latlngs)

----------------------------------------------------------------------------
(* Table render *)

getLegKey(a, b) == <<a, b>>

\* the slip of marking up the stops with the moving time
LegTotalH_MarkupAll(timeH, condPct, stopsMin) ==
    (timeH + stopsMin * (TicksPerHour \div 60)) * (100 + condPct)

\* timeH * (1 + condPct / 100) + (stopsMin / 60), in 1/100 tick
LegTotalH(timeH, condPct, stopsMin) ==
    timeH * (100 + condPct) + stopsMin * ((TicksPerHour * 100) \div 60)

\* cum[b] ?? (cum[a] ?? 0), less cum[a] ?? 0
CumDelta(cum, a, b) ==
    LET xA == Val(Coalesce(AtOrNull(cum, a), Some(0)))
        xB == Val(Coalesce(AtOrNull(cum, b), Some(xA)))
    IN  xB - xA

\* the leg of roadbookIdx[k - 1], roadbookIdx[k] as the table and the plan
\* compute it (k is 0-based, 1 <= k < roadbookIdx.length)
LegEntry(k, n, idx, cd, ca, cde, ct, stops, cond) ==
    LET lastIdx == n - 1
        a == Max(0, Min(At(idx, k - 1), lastIdx))
        b == Max(0, Min(At(idx, k), lastIdx))
        key == getLegKey(a, b)
        timeH == CumDelta(ct, a, b)
        stopsMin == Val(Coalesce(MapGet(stops, key), Some(0)))
        condPct == Val(Coalesce(MapGet(cond, key), Some(0)))
    IN  [idx |-> k, a |-> a, b |-> b, key |-> key,
         distKm |-> CumDelta(cd, a, b), ascM |-> CumDelta(ca, a, b),
         desM |-> CumDelta(cde, a, b), baseH |-> timeH,
         stopsMin |-> stopsMin, condPct |-> condPct,
         totalH |-> LegTotalH(timeH, condPct, stopsMin)]

\* renderRoadbooksTable: the rows of the table
renderRoadbooksTable(n, idx, cd, ca, cde, ct, stops, cond) ==
    IF n = 0 \/ Len(idx) < 2 THEN <<>>
    ELSE [k \in 1..(Len(idx) - 1) |-> LegEntry(k, n, idx, cd, ca, cde, ct, stops, cond)]

----------------------------------------------------------------------------
(* The session: one action per handler *)

\* calculate runs that may be suspended in readFileAsText at once
MaxReads == 1
\* calculate runs that may overlap when the claim is about overlapping runs
MaxOverlap == 2
\* legs that may carry overrides at once
MaxOverrides == 1

StopsChoices == {30}
CondChoices == {10}
LegNameChoices == {"", "Ridge"}
\* where the user may click the map: latitudes, on the meridian of the track
ClickLats == {0, 2, 4}

Init ==
    /\ fields = CHOOSE f \in FieldChoices : f.spacingM = 2
    /\ reads = <<>>
    /\ trackLatLngs = <<>>
    /\ trackBreakIdx = <<>>
    /\ cumDistKm = <<>>
    /\ cumAscentM = <<>>
    /\ cumDescentM = <<>>
    /\ cumTimeH = <<>>
    /\ debugRows = <<>>
    /\ calcSettings = ReadSettings(fields)
    /\ roadbookIdx = <<>>
    /\ roadbookLabels = EmptyMap
    /\ legLabels = EmptyMap
    /\ legStopsMin = EmptyMap
    /\ legCondPct = EmptyMap
    /\ legCritical = EmptyMap
    /\ markers = <<>>
    /\ legTable = <<>>
    /\ message = ""
    /\ savedPlan = Null
    /\ fnPhase = "idle"
    /\ fnArgs = <<>>
    /\ fnResult = <<>>

\* the user types other numbers into the settings form
EditSettings(f) ==
    /\ f # fields
    /\ fields' = f
    /\ UNCHANGED <<reads, trackVars, roadbookVars, legVars, legTable, message, savedPlan, fnVars>>

\* calcBtn click, before the await: the message its checks end in, "" when
\* they pass
CalcRefusal(hasFile, st) ==
    IF ~hasFile THEN "Please upload a GPX file."
    ELSE IF ~(st.speedFlatKmh > 0) \/ ~(st.speedVertMh > 0) \/ ~(st.downhillFactor > 0)
    THEN "Please provide valid positive numbers for speeds and downhill factor."
    ELSE ""

\* calcBtn click, up to await readFileAsText, while fewer than limit runs are
\* suspended
CalcClickWithin(limit, hasFile, gpx) ==
    /\ Len(reads) < limit
    /\ LET st == ReadSettings(fields)
       IN  IF CalcRefusal(hasFile, st) # ""
           THEN /\ message' = CalcRefusal(hasFile, st)
                /\ UNCHANGED reads
           ELSE /\ reads' = Append(reads, [gpx |-> gpx, settings |-> st,
                                           importRoadbooks |-> fields.importRoadbooks])
                /\ message' = ""
    /\ UNCHANGED <<fields, trackVars, roadbookVars, legVars, legTable, savedPlan, fnVars>>

CalcClick(hasFile, gpx) == CalcClickWithin(MaxReads, hasFile, gpx)

\* Start and Finish, then the waypoints of the file when they are imported
\* (script.js 250-264)
RunRoadbooks(run, latlngs) ==
    LET n == Len(latlngs)
        rb1 == IF n >= 2
               THEN addRoadbookIndex(addRoadbookIndex(EmptyRoadbook, n, 0, "Start", TRUE),
                                     n, n - 1, "Finish", TRUE)
               ELSE EmptyRoadbook
    IN  IF run.importRoadbooks
        THEN ImportRoadbooks(rb1, parseGPXRoadbooks(run.gpx), latlngs)
        ELSE rb1

\* the slip of a second suspension point between the reset of the globals and
\* the loop over the segments: what the other handlers see meanwhile
CalcBody_ResetOnly(run) ==
    \E segments \in {parseGPXToSegments(run.gpx)} :
        IF segments = <<>>
        THEN /\ message' = "No track segments found."
             /\ UNCHANGED <<trackVars, roadbookVars, legVars, legTable>>
        ELSE /\ trackLatLngs' = EmptyTrack.trackLatLngs
             /\ trackBreakIdx' = EmptyTrack.trackBreakIdx
             /\ cumDistKm' = EmptyTrack.cumDistKm
             /\ cumAscentM' = EmptyTrack.cumAscentM
             /\ cumDescentM' = EmptyTrack.cumDescentM
             /\ cumTimeH' = EmptyTrack.cumTimeH
             /\ debugRows' = EmptyTrack.debugRows
             /\ calcSettings' = run.settings
             /\ roadbookIdx' = EmptyRoadbook.idx
             /\ roadbookLabels' = EmptyRoadbook.labels
             /\ markers' = EmptyRoadbook.markers
             /\ legLabels' = EmptyMap
             /\ legStopsMin' = EmptyMap
             /\ legCondPct' = EmptyMap
             /\ legCritical' = EmptyMap
             /\ UNCHANGED legTable
             /\ message' = ""

\* calcBtn click, from the file's text on
CalcBody(run) ==
    \E segments \in {parseGPXToSegments(run.gpx)} :
        IF segments = <<>>
        THEN /\ message' = "No track segments found."
             /\ UNCHANGED <<trackVars, roadbookVars, legVars, legTable>>
        ELSE \E acc \in {BuildTrack(EmptyTrack, segments, run.settings)} :
             \E rb \in {RunRoadbooks(run, acc.trackLatLngs)} :
                /\ trackLatLngs' = acc.trackLatLngs
                /\ trackBreakIdx' = acc.trackBreakIdx
                /\ cumDistKm' = acc.cumDistKm
                /\ cumAscentM' = acc.cumAscentM
                /\ cumDescentM' = acc.cumDescentM
                /\ cumTimeH' = acc.cumTimeH
                /\ debugRows' = acc.debugRows
                /\ calcSettings' = run.settings
                /\ roadbookIdx' = rb.idx
                /\ roadbookLabels' = rb.labels
                /\ markers' = rb.markers
                /\ legLabels' = EmptyMap
                /\ legStopsMin' = EmptyMap
                /\ legCondPct' = EmptyMap
                /\ legCritical' = EmptyMap
                /\ legTable' = renderRoadbooksTable(Len(acc.trackLatLngs), rb.idx,
                                                    acc.cumDistKm, acc.cumAscentM,
                                                    acc.cumDescentM, acc.cumTimeH,
                                                    EmptyMap, EmptyMap)
                /\ message' = ""

\* the read of the r-th suspended run settles and the run goes on
CalcResume(r) ==
    /\ reads' = RemoveAt(reads, r - 1)
    /\ CalcBody(reads[r])
    /\ UNCHANGED <<fields, savedPlan, fnVars>>

\* calcBtn click with the read settling before the next event
Calculate(hasFile, gpx) ==
    /\ reads = <<>>
    /\ LET st == ReadSettings(fields)
       IN  IF CalcRefusal(hasFile, st) # ""
           THEN /\ message' = CalcRefusal(hasFile, st)
                /\ UNCHANGED <<trackVars, roadbookVars, legVars, legTable>>
           ELSE CalcBody([gpx |-> gpx, settings |-> st,
                          importRoadbooks |-> fields.importRoadbooks])
    /\ UNCHANGED <<fields, reads, savedPlan, fnVars>>

Rerender(idx, stops, cond) ==
    renderRoadbooksTable(Len(trackLatLngs), idx, cumDistKm, cumAscentM, cumDescentM,
                         cumTimeH, stops, cond)

\* map click
MapClick(lat) ==
    /\ Len(trackLatLngs) > 0
    /\ LET i == nearestIndexOnTrack(lat, 0, trackLatLngs)
           rb == addRoadbookIndex([idx |-> roadbookIdx, labels |-> roadbookLabels,
                                   markers |-> markers],
                                  Len(trackLatLngs), i, "", FALSE)
       IN  /\ roadbookIdx' = rb.idx
           /\ roadbookLabels' = rb.labels
           /\ markers' = rb.markers
           /\ legTable' = Rerender(rb.idx, legStopsMin, legCondPct)
    /\ message' = ""
    /\ UNCHANGED <<fields, reads, trackVars, legVars, savedPlan, fnVars>>

\* the leg labels left when every key with an end at idx is deleted
DeleteLegLabelsAt(labels, idx) ==
    [k \in {x \in DOMAIN labels : x[1] # idx /\ x[2] # idx} |-> labels[k]]

\* click on the marker markers[mi] (mi is 0-based)
MarkerClick(mi) ==
    LET m == At(markers, mi)
    IN  /\ IF m.locked
           THEN UNCHANGED <<roadbookVars, legVars, legTable>>
           ELSE LET idx == IF Includes(roadbookIdx, m.idx)
                           THEN RemoveAt(roadbookIdx, IndexOf(roadbookIdx, m.idx))
                           ELSE roadbookIdx
                    stops == MapDelete(legStopsMin, getLegKey(m.idx, m.idx + 1))
                    cond == MapDelete(legCondPct, getLegKey(m.idx, m.idx + 1))
                IN  /\ roadbookIdx' = idx
                    /\ markers' = RemoveAt(markers,
                           CHOOSE k \in 0..(Len(markers) - 1) :
                               /\ At(markers, k).idx = m.idx
                               /\ \A j \in 0..(k - 1) : At(markers, j).idx # m.idx)
                    /\ roadbookLabels' = MapDelete(roadbookLabels, m.idx)
                    /\ legLabels' = DeleteLegLabelsAt(legLabels, m.idx)
                    /\ legStopsMin' = stops
                    /\ legCondPct' = cond
                    /\ UNCHANGED legCritical
                    /\ legTable' = Rerender(idx, stops, cond)
        /\ message' = ""
        /\ UNCHANGED <<fields, reads, trackVars, savedPlan, fnVars>>

\* the slip of leaving out legCritical.clear()
ClearClick_KeepsCritical ==
    /\ IF Len(trackLatLngs) = 0
       THEN UNCHANGED <<roadbookVars, legVars, legTable>>
       ELSE LET n == Len(trackLatLngs)
                rb == addRoadbookIndex(addRoadbookIndex(EmptyRoadbook, n, 0, "Start", TRUE),
                                       n, n - 1, "Finish", TRUE)
            IN  /\ roadbookIdx' = rb.idx
                /\ roadbookLabels' = rb.labels
                /\ markers' = rb.markers
                /\ legLabels' = EmptyMap
                /\ legStopsMin' = EmptyMap
                /\ legCondPct' = EmptyMap
                /\ UNCHANGED legCritical
                /\ legTable' = Rerender(rb.idx, EmptyMap, EmptyMap)
    /\ message' = ""
    /\ UNCHANGED <<fields, reads, trackVars, savedPlan, fnVars>>

\* clearBtn click
ClearClick ==
    /\ IF Len(trackLatLngs) = 0
       THEN UNCHANGED <<roadbookVars, legVars, legTable>>
       ELSE LET n == Len(trackLatLngs)
                rb == addRoadbookIndex(addRoadbookIndex(EmptyRoadbook, n, 0, "Start", TRUE),
                                       n, n - 1, "Finish", TRUE)
            IN  /\ roadbookIdx' = rb.idx
                /\ roadbookLabels' = rb.labels
                /\ markers' = rb.markers
                /\ legLabels' = EmptyMap
                /\ legStopsMin' = EmptyMap
                /\ legCondPct' = EmptyMap
                /\ legCritical' = EmptyMap
                /\ legTable' = Rerender(rb.idx, EmptyMap, EmptyMap)
    /\ message' = ""
    /\ UNCHANGED <<fields, reads, trackVars, savedPlan, fnVars>>

\* the legs that carry an override
OverriddenKeys ==
    DOMAIN legLabels \cup DOMAIN legStopsMin \cup DOMAIN legCondPct \cup DOMAIN legCritical

\* the leg key may take an override
Room(m, key) ==
    \/ key \in OverriddenKeys
    \/ Cardinality(OverriddenKeys) < MaxOverrides

\* blur of the Stops cell of row r of the table (r is 1-based)
EditStops(r, val) ==
    /\ r \in 1..Len(legTable)
    /\ Room(legStopsMin, legTable[r].key)
    /\ legStopsMin' = MapSet(legStopsMin, legTable[r].key, val)
    /\ legTable' = Rerender(roadbookIdx, legStopsMin', legCondPct)
    /\ message' = ""
    /\ UNCHANGED <<fields, reads, trackVars, roadbookVars, legLabels, legCondPct, legCritical,
                   savedPlan, fnVars>>

\* blur of the Cond cell of row r
EditCond(r, val) ==
    /\ r \in 1..Len(legTable)
    /\ Room(legCondPct, legTable[r].key)
    /\ legCondPct' = MapSet(legCondPct, legTable[r].key, val)
    /\ legTable' = Rerender(roadbookIdx, legStopsMin, legCondPct')
    /\ message' = ""
    /\ UNCHANGED <<fields, reads, trackVars, roadbookVars, legLabels, legStopsMin, legCritical,
                   savedPlan, fnVars>>

\* change of the Critical select of row r
EditCritical(r, yes) ==
    /\ r \in 1..Len(legTable)
    /\ Room(legCritical, legTable[r].key)
    /\ legCritical' = MapSet(legCritical, legTable[r].key, yes)
    /\ message' = ""
    /\ UNCHANGED <<fields, reads, trackVars, roadbookVars, legLabels, legStopsMin, legCondPct,
                   legTable, savedPlan, fnVars>>

\* setLegLabelByKey
setLegLabelByKey(labels, key, txt) ==
    IF txt = "" THEN MapDelete(labels, key) ELSE MapSet(labels, key, txt)

\* blur of the Name cell of row r
EditLegName(r, txt) ==
    /\ r \in 1..Len(legTable)
    /\ txt = "" \/ Room(legLabels, legTable[r].key)
    /\ legLabels' = setLegLabelByKey(legLabels, legTable[r].key, txt)
    /\ legTable' = Rerender(roadbookIdx, legStopsMin, legCondPct)
    /\ message' = ""
    /\ UNCHANGED <<fields, reads, trackVars, roadbookVars, legStopsMin, legCondPct, legCritical,
                   savedPlan, fnVars>>

----------------------------------------------------------------------------
(* Save / Load *)

\* parseFloat(v) || d
ParseFloatOr(v, d) == IF v = NotANumber \/ v = 0 THEN d ELSE v

trackSignature(latlngs, f) ==
    IF Len(latlngs) = 0 THEN Null
    ELSE Some([n |-> Len(latlngs), first |-> latlngs[1], last |-> Last(latlngs),
               spacingM |-> ParseFloatOr(f.spacingM, 5),
               smoothWinM |-> ParseFloatOr(f.smoothWinM, 35),
               elevDeadbandM |-> ParseFloatOr(f.elevDeadbandM, 2)])

getWaypointLabel(labels, idx) ==
    IF Truthy(MapGet(labels, idx)) THEN labels[idx] ELSE HashLabel(idx)
getDefaultLegLabel(labels, a, b) ==
    getWaypointLabel(labels, a) \o " -> " \o getWaypointLabel(labels, b)

\* one entry of the plan's legs array (k is 0-based, as in LegEntry)
PlanLeg(k) ==
    LET e == LegEntry(k, Len(trackLatLngs), roadbookIdx, cumDistKm, cumAscentM, cumDescentM,
                      cumTimeH, legStopsMin, legCondPct)
    IN  [idx |-> e.idx, a |-> e.a, b |-> e.b, key |-> e.key,
         name |-> IF Truthy(MapGet(legLabels, e.key)) THEN legLabels[e.key]
                  ELSE getDefaultLegLabel(roadbookLabels, e.a, e.b),
         distKm |-> e.distKm, ascM |-> e.ascM, desM |-> e.desM, baseH |-> e.baseH,
         stopsMin |-> e.stopsMin, condPct |-> e.condPct, totalH |-> e.totalH,
         critical |-> (MapGet(legCritical, e.key) = Some(TRUE))]

\* the decimal numerals of the trajectory indices
Digits == <<"0", "1", "2", "3", "4", "5", "6", "7", "8", "9">>

\* Number(k) of a property name k
Number(k) == (CHOOSE d \in 1..Len(Digits) : Digits[d] = k) - 1

\* Object.fromEntries(m) of a Map with numeric keys: the property names are
\* the keys' decimal strings
ObjectFromEntries(m) ==
    [k \in {ToString(i) : i \in DOMAIN m} |-> m[CHOOSE i \in DOMAIN m : ToString(i) = k]]

\* new Map(Object.entries(o).map(([k, v]) => [Number(k), v]))
MapOfNumberKeys(o) ==
    [i \in {Number(k) : k \in DOMAIN o} |-> o[CHOOSE k \in DOMAIN o : Number(k) = i]]

\* new Map(Object.entries(o).map(([k, v]) => [k, !!v]))
MapOfFlags(o) == [k \in DOMAIN o |-> o[k] = TRUE]

\* serializePlan; version, createdAt and settings are written and never read.
\* The leg maps are keyed by the strings a|b, which Object.fromEntries keeps;
\* JSON.stringify and JSON.parse keep the finite numbers, strings, booleans,
\* null, arrays and plain objects the plan is made of.
serializePlan ==
    [signature |-> trackSignature(trackLatLngs, fields),
     roadbookIdx |-> roadbookIdx,
     roadbookLabels |-> ObjectFromEntries(roadbookLabels),
     legLabels |-> legLabels,
     legStopsMin |-> legStopsMin,
     legCondPct |-> legCondPct,
     legCritical |-> legCritical,
     legs |-> [k \in 1..(Len(roadbookIdx) - 1) |-> PlanLeg(k)]]

\* saveBtn click; the session writes one plan file
SavePlan ==
    /\ IsNull(savedPlan)
    /\ Len(trackLatLngs) > 0
    /\ savedPlan' = Some(serializePlan)
    /\ message' = ""
    /\ UNCHANGED <<fields, reads, trackVars, roadbookVars, legVars, legTable, fnVars>>

\* for (const i of roadbookIdx) addRoadbookIndex(i, ...): the loop reads the
\* array addRoadbookIndex pushes to and sorts
RECURSIVE RestoreLoop(_, _, _)
RestoreLoop(rb, n, k) ==
    IF k >= Len(rb.idx) THEN rb
    ELSE LET i == At(rb.idx, k)
             locked == (i = 0 \/ i = n - 1)
             label == IF MapHas(rb.labels, i) THEN rb.labels[i] ELSE ""
         IN  RestoreLoop(addRoadbookIndex(rb, n, i, label, locked), n, k + 1)

\* a plan file that did not come from Save: its waypoints are listed in the
\* order of the walk's description, and it carries no signature
HandWrittenPlan ==
    [signature |-> Null,
     roadbookIdx |-> <<0, 3, 1>>,
     roadbookLabels |-> MapSet(MapSet(MapSet(EmptyMap, "0", "Start"), "3", "Hut"), "1", "Col"),
     legLabels |-> EmptyMap,
     legStopsMin |-> EmptyMap,
     legCondPct |-> EmptyMap,
     legCritical |-> EmptyMap,
     legs |-> <<>>]

\* the files the user may pick in the Load dialog
PlanFiles == {HandWrittenPlan} \cup (IF IsNull(savedPlan) THEN {} ELSE {Val(savedPlan)})

\* restorePlanFromJSON(plan) on a track of n points, up to the render: the
\* waypoints, the markers and the four leg maps it installs
restorePlanFromJSON(plan, n) ==
    LET rb == RestoreLoop([idx |-> plan.roadbookIdx,
                           labels |-> MapOfNumberKeys(plan.roadbookLabels),
                           markers |-> <<>>], n, 0)
    IN  [idx |-> rb.idx, labels |-> rb.labels, markers |-> rb.markers,
         legLabels |-> plan.legLabels,
         legStopsMin |-> plan.legStopsMin,
         legCondPct |-> plan.legCondPct,
         legCritical |-> MapOfFlags(plan.legCritical)]

\* loadInput change: restorePlanFromJSON(plan)
LoadPlan(plan) ==
    /\ \E sig \in {trackSignature(trackLatLngs, fields)} :
       \E r \in {restorePlanFromJSON(plan, Len(trackLatLngs))} :
           /\ message' = IF IsNull(sig) \/ IsNull(plan.signature)
                            \/ Val(sig).n # Val(plan.signature).n
                         THEN "Heads-up: this saved plan may belong to a different GPX or settings."
                         ELSE ""
           /\ roadbookIdx' = r.idx
           /\ roadbookLabels' = r.labels
           /\ markers' = r.markers
           /\ legLabels' = r.legLabels
           /\ legStopsMin' = r.legStopsMin
           /\ legCondPct' = r.legCondPct
           /\ legCritical' = r.legCritical
           /\ legTable' = Rerender(r.idx, r.legStopsMin, r.legCondPct)
    /\ UNCHANGED <<fields, reads, trackVars, savedPlan, fnVars>>

\* calculate and the waypoints, with the file read as its own step
Next ==
    \/ \E f \in FieldChoices : EditSettings(f)
    \/ \E hasFile \in BOOLEAN : \E gpx \in Files : CalcClick(hasFile, gpx)
    \/ \E r \in 1..Len(reads) : CalcResume(r)
    \/ \E lat \in ClickLats : MapClick(lat)
    \/ \E mi \in 0..(Len(markers) - 1) : MarkerClick(mi)
    \/ ClearClick

Spec == Init /\ [][Next]_vars

NextLegs ==
    \/ \E f \in FieldChoices : EditSettings(f)
    \/ \E hasFile \in BOOLEAN : \E gpx \in Files : Calculate(hasFile, gpx)
    \/ \E lat \in ClickLats : MapClick(lat)
    \/ \E mi \in 0..(Len(markers) - 1) : MarkerClick(mi)
    \/ ClearClick
    \/ \E r \in 1..Len(legTable) : \E val \in StopsChoices : EditStops(r, val)
    \/ \E r \in 1..Len(legTable) : \E val \in CondChoices : EditCond(r, val)

\* the planning session with the stops and the markup of the legs
SpecLegs == Init /\ [][NextLegs]_vars

NextOverrides ==
    \/ NextLegs
    \/ \E r \in 1..Len(legTable) : \E yes \in BOOLEAN : EditCritical(r, yes)
    \/ \E r \in 1..Len(legTable) : \E txt \in LegNameChoices : EditLegName(r, txt)

\* the planning session with every per-leg override
SpecOverrides == Init /\ [][NextOverrides]_vars

NextPlans ==
    \/ \E f \in FieldChoices : EditSettings(f)
    \/ \E hasFile \in BOOLEAN : \E gpx \in Files : Calculate(hasFile, gpx)
    \/ \E lat \in ClickLats : MapClick(lat)
    \/ \E mi \in 0..(Len(markers) - 1) : MarkerClick(mi)
    \/ ClearClick
    \/ SavePlan
    \/ \E plan \in PlanFiles : LoadPlan(plan)

\* the planning session with Save and Load
SpecPlans == Init /\ [][NextPlans]_vars

NextRuns ==
    \/ \E hasFile \in BOOLEAN : \E gpx \in Files \cup {FileLonePoint} :
          CalcClick(hasFile, gpx)
    \/ \E r \in 1..Len(reads) : CalcResume(r)
    \/ \E lat \in ClickLats : MapClick(lat)
    \/ \E mi \in 0..(Len(markers) - 1) : MarkerClick(mi)
    \/ ClearClick
    \/ \E r \in 1..Len(legTable) : \E val \in StopsChoices : EditStops(r, val)
    \/ \E r \in 1..Len(legTable) : \E val \in CondChoices : EditCond(r, val)
    \/ \E r \in 1..Len(legTable) : \E yes \in BOOLEAN : EditCritical(r, yes)
    \/ \E r \in 1..Len(legTable) : \E txt \in LegNameChoices : EditLegName(r, txt)

\* calculate runs, with the file read as its own step, over a session that
\* carries waypoints and every per-leg override
SpecRuns == Init /\ [][NextRuns]_vars

\* the files of the overlapping runs: a track, a route, a malformed document
OverlapFiles == {FileUpDown, FileRoute, FileMalformed}

NextOverlap ==
    \/ \E hasFile \in BOOLEAN : \E gpx \in OverlapFiles :
          CalcClickWithin(MaxOverlap, hasFile, gpx)
    \/ \E r \in 1..Len(reads) : CalcResume(r)
    \/ \E lat \in ClickLats : MapClick(lat)
    \/ \E mi \in 0..(Len(markers) - 1) : MarkerClick(mi)
    \/ ClearClick
    \/ \E r \in 1..Len(legTable) : \E val \in StopsChoices : EditStops(r, val)
    \/ \E plan \in PlanFiles : LoadPlan(plan)

\* calculate runs that overlap: a run may be started while others are
\* suspended in their file read, the reads settle in any order, and the other
\* handlers run in between
SpecOverlap == Init /\ [][NextOverlap]_vars

NextRoundTrip ==
    \/ \E hasFile \in BOOLEAN : \E gpx \in Files :
          IsNull(savedPlan) /\ Calculate(hasFile, gpx)
    \/ \E lat \in ClickLats : MapClick(lat)
    \/ \E r \in 1..Len(legTable) : \E val \in StopsChoices : EditStops(r, val)
    \/ \E r \in 1..Len(legTable) : \E val \in CondChoices : EditCond(r, val)
    \/ \E r \in 1..Len(legTable) : \E yes \in BOOLEAN : EditCritical(r, yes)
    \/ \E r \in 1..Len(legTable) : \E txt \in LegNameChoices : EditLegName(r, txt)
    \/ SavePlan
    \/ ~IsNull(savedPlan) /\ LoadPlan(Val(savedPlan))

\* a plan is saved and loaded again on the track it was saved on: no calculate
\* run after the Save, and the file loaded is the one saved
SpecRoundTrip == Init /\ [][NextRoundTrip]_vars

----------------------------------------------------------------------------
(* The filters and the resampler on their own: the arguments are drawn in   *)
(* the initial state, one action applies the function.                      *)

\* longest elevation series given to the deadband filter
DbMaxLen == 4
\* largest sample, deadband and constant of the deadband filter's inputs
DbMaxVal == 2
\* most points of a segment given to the resampler
RsMaxLen == 3
\* largest latitude (metres) of a resampled segment's points
RsMaxLat == 3

RECURSIVE SeqsUpTo(_, _)
SeqsUpTo(S, n) ==
    IF n = 0 THEN {<<>>}
    ELSE LET shorter == SeqsUpTo(S, n - 1)
         IN  shorter \cup {Append(s, x) : s \in {t \in shorter : Len(t) = n - 1}, x \in S}

DbSamples == {Null} \cup {Some(v) : v \in (0 - DbMaxVal)..DbMaxVal}
DbInputs == [elev : SeqsUpTo(DbSamples, DbMaxLen) \ {<<>>}, deadband : 0..(DbMaxVal + 1)]

RsElevations == {Null, Some(0), Some(EleScale), Some(2 * EleScale)}
RsPoints == [lat : 0..RsMaxLat, lon : {0}, ele : RsElevations]
RsRawSegments == {s \in SeqsUpTo(RsPoints, RsMaxLen) : Len(s) >= 2}
\* the resampler is given gap-filled points (script.js 173-174)
RsInputs == [points : {fillElevationOnPoints(s) : s \in RsRawSegments}, spacingM : 1..2]

\* the session stays as it is constructed
SessionIdle ==
    /\ fields = CHOOSE f \in FieldChoices : f.spacingM = 2
    /\ reads = <<>>
    /\ trackLatLngs = <<>> /\ trackBreakIdx = <<>>
    /\ cumDistKm = <<>> /\ cumAscentM = <<>> /\ cumDescentM = <<>> /\ cumTimeH = <<>>
    /\ debugRows = <<>> /\ calcSettings = ReadSettings(fields)
    /\ roadbookIdx = <<>> /\ roadbookLabels = EmptyMap /\ markers = <<>>
    /\ legLabels = EmptyMap /\ legStopsMin = EmptyMap /\ legCondPct = EmptyMap
    /\ legCritical = EmptyMap
    /\ legTable = <<>> /\ message = "" /\ savedPlan = Null

DeadbandInit ==
    /\ SessionIdle
    /\ fnPhase = "input"
    /\ fnArgs \in DbInputs
    /\ fnResult = <<>>

DeadbandApply ==
    /\ fnPhase = "input"
    /\ fnResult' = cumulativeDeadbandFilter(fnArgs.elev, fnArgs.deadband)
    /\ fnPhase' = "done"
    /\ UNCHANGED <<fnArgs, sessionVars>>

SpecDeadband == DeadbandInit /\ [][DeadbandApply]_vars

ResampleInit ==
    /\ SessionIdle
    /\ fnPhase = "input"
    /\ fnArgs \in RsInputs
    /\ fnResult = <<>>

ResampleApply ==
    /\ fnPhase = "input"
    /\ fnResult' = resampleByDistance(fnArgs.points, fnArgs.spacingM)
    /\ fnPhase' = "done"
    /\ UNCHANGED <<fnArgs, sessionVars>>

SpecResample == ResampleInit /\ [][ResampleApply]_vars

----------------------------------------------------------------------------
(* Claims about the deadband filter *)

\* the null-filled input: forward fill, leading nulls take the first value
RECURSIVE NullFill(_, _, _)
NullFill(elev, i, last) ==
    IF i > Len(elev) THEN <<>>
    ELSE LET x == Coalesce(elev[i], last)
         IN  <<x>> \o NullFill(elev, i + 1, x)

NullFilled(elev) ==
    LET first == At(elev, FirstIndex(elev, 0))
    IN  NullFill(elev, 1, first)

DbDone == fnPhase = "done"
DbNonNull == \A i \in 1..Len(fnArgs.elev) : ~IsNull(fnArgs.elev[i])
DbFlat == \A i \in 1..Len(fnResult) : fnResult[i] = fnResult[1]

\* C7: with deadband 0 and at least one non-null sample the filter returns the
\* null-filled input (nulls anywhere, also between two values).
C7_ZeroDeadbandPassThrough ==
    (DbDone /\ fnArgs.deadband = 0 /\ \E i \in 1..Len(fnArgs.elev) : ~IsNull(fnArgs.elev[i]))
        => fnResult = NullFilled(fnArgs.elev)

\* C8 as stated: every sample closer than the deadband d > 0 to some constant
\* c gives a flat output.
C8_BelowBandAroundConstantIsFlat ==
    (DbDone /\ fnArgs.deadband > 0 /\ DbNonNull
        /\ \E c \in (0 - DbMaxVal)..DbMaxVal :
              \A i \in 1..Len(fnArgs.elev) : Abs(Val(fnArgs.elev[i]) - c) < fnArgs.deadband)
        => DbFlat

\* C8 amended: when no sample is further than the deadband d > 0 from the first
\* sample (so also when every sample is within d/2 of a constant c), the
\* output is flat: every output sample equals the first.
C8_WithinBandOfFirstSampleIsFlat ==
    /\ (DbDone /\ fnArgs.deadband > 0 /\ DbNonNull
          /\ \A i \in 1..Len(fnArgs.elev) :
                Abs(Val(fnArgs.elev[i]) - Val(fnArgs.elev[1])) <= fnArgs.deadband)
        => DbFlat
    /\ (DbDone /\ fnArgs.deadband > 0 /\ DbNonNull
          /\ \E c \in (0 - DbMaxVal)..DbMaxVal :
                \A i \in 1..Len(fnArgs.elev) :
                    2 * Abs(Val(fnArgs.elev[i]) - c) <= fnArgs.deadband)
        => DbFlat

\* an oscillation around its first sample that touches the band's edge on both
\* sides has been filtered
C8_Witness ==
    /\ DbDone /\ fnArgs.deadband > 0 /\ DbNonNull
    /\ Len(fnArgs.elev) >= 3
    /\ \A i \in 1..Len(fnArgs.elev) :
          Abs(Val(fnArgs.elev[i]) - Val(fnArgs.elev[1])) <= fnArgs.deadband
    /\ \E i, j \in 1..Len(fnArgs.elev) :
          /\ Val(fnArgs.elev[i]) - Val(fnArgs.elev[1]) = fnArgs.deadband
          /\ Val(fnArgs.elev[1]) - Val(fnArgs.elev[j]) = fnArgs.deadband

----------------------------------------------------------------------------
(* Claims about the resampler *)

\* C9: for a segment of positive arc length the resampler ends, its first
\* output point is the first input point and its last output point is the
\* last input point, in latitude, longitude and elevation.
C9_EndpointsCoincide ==
    (fnPhase = "done" /\ Last(ArcCum(fnArgs.points, 2, <<0>>)) > 0)
        => /\ Len(fnResult) >= 2
           /\ fnResult[1] = fnArgs.points[1]
           /\ Last(fnResult) = Last(fnArgs.points)

----------------------------------------------------------------------------
(* Claims about the cumulative arrays *)

\* a calculate run has completed
TrackReady == Len(trackLatLngs) > 0

\* the four arrays, under the names their per-step values have in a row
CumArrays ==
    [distKm |-> cumDistKm, ascentM |-> cumAscentM, descentM |-> cumDescentM,
     segTimeH |-> cumTimeH]

\* the sum of the per-step values f of the steps that end at a point in a+1..b;
\* no step ends at the first point of a segment
RECURSIVE StepSumFrom(_, _, _, _)
StepSumFrom(f, a, b, k) ==
    IF k > Len(debugRows) THEN 0
    ELSE (IF a < debugRows[k].i /\ debugRows[k].i <= b THEN debugRows[k][f] ELSE 0)
         + StepSumFrom(f, a, b, k + 1)
StepSum(f, a, b) == StepSumFrom(f, a, b, 1)

\* a leg entry carries the sums of the steps between its ends
LegIsSumOfSteps(e) ==
    e.a <= e.b =>
        /\ e.distKm = StepSum("distKm", e.a, e.b)
        /\ e.ascM = StepSum("ascentM", e.a, e.b)
        /\ e.desM = StepSum("descentM", e.a, e.b)
        /\ e.baseH = StepSum("segTimeH", e.a, e.b)

\* C1: after a completed calculate run, for all trajectory indices a <= b the
\* differences cum[b] - cum[a] that the table renderer and serializePlan read
\* equal the sum of the per-step distance, ascent, descent and time of the
\* steps between a and b, a seam contributing nothing.
C1_RangeQueryIsSumOfSteps ==
    TrackReady =>
        /\ \A f \in DOMAIN CumArrays :
              \A a, b \in 0..(Len(trackLatLngs) - 1) :
                  a <= b => CumDelta(CumArrays[f], a, b) = StepSum(f, a, b)
        /\ \A r \in 1..Len(legTable) : LegIsSumOfSteps(legTable[r])
        /\ \A k \in 1..(Len(roadbookIdx) - 1) : LegIsSumOfSteps(PlanLeg(k))

\* a rendered leg that spans a seam and several steps, with climb in it
C1_Witness ==
    /\ TrackReady
    /\ \E r \in 1..Len(legTable) : \E s \in 1..Len(trackBreakIdx) :
          /\ trackBreakIdx[s] > 0
          /\ legTable[r].a < trackBreakIdx[s] /\ trackBreakIdx[s] < legTable[r].b
          /\ legTable[r].ascM > 0 /\ legTable[r].baseH > 0

SameLengths ==
    /\ Len(cumAscentM) = Len(cumDistKm)
    /\ Len(cumDescentM) = Len(cumDistKm)
    /\ Len(cumTimeH) = Len(cumDistKm)

\* C2 as stated: after a completed calculate run the four cumulative arrays
\* have one length, the number of trajectory points plus 1.
C2_LengthIsPointsPlusOne ==
    TrackReady => SameLengths /\ Len(cumDistKm) = Len(trackLatLngs) + 1

\* C2 amended: after a completed calculate run the four cumulative arrays
\* have one length, the number of trajectory points: one entry per point.
C2_LengthIsPoints ==
    TrackReady => SameLengths /\ Len(cumDistKm) = Len(trackLatLngs)

\* a run over two usable segments has completed
C2_Witness ==
    /\ TrackReady
    /\ Len(trackBreakIdx) >= 2
    /\ Len(cumTimeH) = 5

\* C3: for every segment start k > 0 in trackBreakIdx each cumulative array
\* has cum[k] = cum[k-1].
C3_SeamDuplicatesTotals ==
    \A s \in 1..Len(trackBreakIdx) :
        LET k == trackBreakIdx[s]
        IN  k > 0 => \A f \in DOMAIN CumArrays :
                        At(CumArrays[f], k) = At(CumArrays[f], k - 1)

\* a seam with distance and time before it and more of both after it
C3_Witness ==
    \E s \in 1..Len(trackBreakIdx) :
        LET k == trackBreakIdx[s]
        IN  /\ k > 0
            /\ At(cumDistKm, k) > 0 /\ At(cumTimeH, k) > 0
            /\ Last(cumDistKm) > At(cumDistKm, k)
            /\ Last(cumTimeH) > At(cumTimeH, k)

\* C4: after a completed calculate run each cumulative array starts at zero
\* and never decreases, seams included.
C4_ZeroBasedMonotone ==
    TrackReady =>
        \A f \in DOMAIN CumArrays :
            /\ At(CumArrays[f], 0) = 0
            /\ \A i \in 1..(Len(CumArrays[f]) - 1) :
                  At(CumArrays[f], i) >= At(CumArrays[f], i - 1)

\* a track that climbs and drops
C4_Witness ==
    /\ TrackReady
    /\ Last(cumAscentM) > 0 /\ Last(cumDescentM) > 0
    /\ Last(cumTimeH) > 0

----------------------------------------------------------------------------
(* Claims about the step time *)

RowFlatH(row) == FlatTimeH(row.distKm, calcSettings.speedFlatKmh)
RowVertH(row) == VertTimeH(row.ascentM, row.descentM, calcSettings.speedVertMh)
RowDownhill(row) == row.descentM > 0 /\ row.descentM >= row.ascentM

\* C5: with h = distKm/speedFlatKmh and v = max(ascentM, descentM)/speedVertMh
\* the time a step adds to cumTimeH is max(h, v) + 0.5*min(h, v), times
\* downhillFactor exactly when descentM > 0 and descentM >= ascentM; the
\* unmultiplied value is the same with h and v swapped.
C5_StepTime ==
    \A k \in 1..Len(debugRows) :
        LET row == debugRows[k]
            h == RowFlatH(row)
            v == RowVertH(row)
        IN  /\ h * MetresPerKm * calcSettings.speedFlatKmh = row.distKm * TicksPerHour
            /\ v * EleScale * calcSettings.speedVertMh
                  = Max(row.ascentM, row.descentM) * TicksPerHour
            /\ 2 * DhfDen * row.segTimeH
                  = (2 * Max(h, v) + Min(h, v))
                      * (IF RowDownhill(row) THEN calcSettings.downhillFactor ELSE DhfDen)
            /\ At(cumTimeH, row.i) - At(cumTimeH, row.i - 1) = row.segTimeH
            /\ SegTimeH(h, v, 0, 0, DhfDen) = SegTimeH(v, h, 0, 0, DhfDen)

\* one run with a step where the climb dominates, a step where the distance
\* dominates a drop, and a level step
C5_Witness ==
    /\ \E k \in 1..Len(debugRows) :
          RowVertH(debugRows[k]) > RowFlatH(debugRows[k]) /\ debugRows[k].ascentM > 0
    /\ \E k \in 1..Len(debugRows) :
          /\ RowFlatH(debugRows[k]) > RowVertH(debugRows[k])
          /\ RowDownhill(debugRows[k])
    /\ \E k \in 1..Len(debugRows) :
          debugRows[k].ascentM = 0 /\ debugRows[k].descentM = 0 /\ debugRows[k].distKm > 0

----------------------------------------------------------------------------
(* Claims about the legs *)

\* totalH is in hundredths of a tick
HundredthsPerHour == TicksPerHour * 100

\* totalH = baseH * (1 + condPct/100) + stopsMin/60 for the entry e, whose
\* stops and markup are those stored under its key, 0 where none is stored
LegTotalComposed(e) ==
    /\ e.stopsMin = (IF MapHas(legStopsMin, e.key) THEN legStopsMin[e.key] ELSE 0)
    /\ e.condPct = (IF MapHas(legCondPct, e.key) THEN legCondPct[e.key] ELSE 0)
    /\ 60 * e.totalH = 60 * e.baseH * (100 + e.condPct) + e.stopsMin * HundredthsPerHour
    /\ (~MapHas(legStopsMin, e.key) /\ ~MapHas(legCondPct, e.key))
           => e.totalH = 100 * e.baseH

\* C6: for every leg the table renderer and serializePlan give
\* totalH = baseH * (1 + condPct/100) + stopsMin/60, with 0 for an override
\* that is not stored; 2 h with 30 min of stops and 10 % markup is 2.7 h.
C6_LegTotalTime ==
    /\ \A r \in 1..Len(legTable) : LegTotalComposed(legTable[r])
    /\ \A k \in 1..(Len(roadbookIdx) - 1) : LegTotalComposed(PlanLeg(k))
    /\ 10 * LegTotalH(2 * TicksPerHour, 10, 30) = 27 * HundredthsPerHour

\* a leg that takes time and has both a stop and a markup stored, next to a
\* leg without either
C6_Witness ==
    /\ \E r \in 1..Len(legTable) :
          /\ legTable[r].baseH > 0
          /\ legTable[r].stopsMin = 30 /\ legTable[r].condPct = 10
          /\ PlanLeg(r).totalH = legTable[r].totalH
    /\ \E r \in 1..Len(legTable) :
          /\ legTable[r].baseH > 0
          /\ ~MapHas(legStopsMin, legTable[r].key)
          /\ ~MapHas(legCondPct, legTable[r].key)

----------------------------------------------------------------------------
(* Claims about the waypoint list *)

\* C10: in every state reached by calculate, map click, GPX import, marker
\* click, clear-all and load-plan, roadbookIdx is strictly increasing.
C10_RoadbookIdxStrictlySorted ==
    \A k \in 1..(Len(roadbookIdx) - 1) : roadbookIdx[k] < roadbookIdx[k + 1]

\* C11: once a calculate run has succeeded, in every state reached by
\* add-waypoint, marker click, clear-all and load-plan the waypoint list holds
\* index 0 (Start) and the last trajectory index (Finish), and the markers of
\* these two are locked, so that a click on them removes nothing.
C11_StartAndFinishStay ==
    TrackReady
        => /\ Includes(roadbookIdx, 0)
           /\ Includes(roadbookIdx, Len(trackLatLngs) - 1)
           /\ \A mi \in 0..(Len(markers) - 1) :
                 At(markers, mi).idx \in {0, Len(trackLatLngs) - 1} => At(markers, mi).locked

----------------------------------------------------------------------------
(* Claims about the leg overrides *)

\* the indices of the waypoint list
WaypointSet == {roadbookIdx[k] : k \in 1..Len(roadbookIdx)}

\* no stored label, stop, markup or criticality flag of a leg that starts or
\* ends at w
NoOverrideAt(w) == \A key \in OverriddenKeys : key[1] # w /\ key[2] # w

\* C12: a step that takes the waypoint w out of the list leaves no stored
\* override (label, stop minutes, condition percent, criticality flag) whose
\* key a|b has a = w or b = w, so a waypoint added again at w starts from the
\* defaults.
C12_RemovalDeletesOverrides ==
    [][\A w \in WaypointSet \ WaypointSet' : NoOverrideAt(w)']_vars

----------------------------------------------------------------------------
(* Claims about a calculate run *)

\* the trajectory indices of the waypoints (wpt, named rtept, named trkpt) the
\* file carries
FileWaypointIdx(gpx, latlngs) ==
    LET wps == parseGPXRoadbooks(gpx)
    IN  {nearestIndexOnTrack(wps[k].lat, wps[k].lon, latlngs) : k \in 1..Len(wps)}

\* the session's track, waypoints and overrides, each as one value
TrackNow ==
    [trackLatLngs |-> trackLatLngs, trackBreakIdx |-> trackBreakIdx,
     cumDistKm |-> cumDistKm, cumAscentM |-> cumAscentM, cumDescentM |-> cumDescentM,
     cumTimeH |-> cumTimeH]
RoadbookNow == [idx |-> roadbookIdx, labels |-> roadbookLabels, markers |-> markers]
OverridesNow ==
    [legLabels |-> legLabels, legStopsMin |-> legStopsMin, legCondPct |-> legCondPct,
     legCritical |-> legCritical]

\* the four override maps are empty
NoOverrides == OverriddenKeys = {}

\* the trajectory, the segment breaks and the cumulative arrays t are those the
\* file gpx gives under the settings st, with nothing of an earlier track
TrackIsOf(gpx, st, t) ==
    \E acc \in {BuildTrack(EmptyTrack, parseGPXToSegments(gpx), st)} :
        /\ t.trackLatLngs = acc.trackLatLngs
        /\ t.trackBreakIdx = acc.trackBreakIdx
        /\ t.cumDistKm = acc.cumDistKm
        /\ t.cumAscentM = acc.cumAscentM
        /\ t.cumDescentM = acc.cumDescentM
        /\ t.cumTimeH = acc.cumTimeH

\* the waypoints rb on the track latlngs are Start, Finish and those imported
\* from the file gpx, each with its label and exactly one marker
WaypointsAreOf(gpx, import, latlngs, rb) ==
    LET last == Len(latlngs) - 1
        waypoints == {rb.idx[k] : k \in 1..Len(rb.idx)}
    IN  /\ {0, last} \subseteq waypoints
        /\ waypoints \subseteq
               {0, last} \cup (IF import THEN FileWaypointIdx(gpx, latlngs) ELSE {})
        /\ DOMAIN rb.labels = waypoints
        /\ rb.labels[0] = "Start" /\ rb.labels[last] = "Finish"
        /\ {rb.markers[k].idx : k \in 1..Len(rb.markers)} = waypoints
        /\ Len(rb.markers) = Len(rb.idx)

\* the r-th suspended run goes on in this step and gets past parsing
RunCompletes(r) == reads' = RemoveAt(reads, r - 1) /\ message' = ""

\* C13: a calculate run that gets past validation and parsing leaves the four
\* override maps empty, the waypoint list, labels and markers made of Start,
\* Finish and the waypoints imported from the new file only, and the
\* trajectory, segment breaks and cumulative arrays derived from the new file
\* only, whatever the session held before the run.
C13_RunResetsDerivedState ==
    [][\A r \in 1..Len(reads) :
          RunCompletes(r)
              => \E t \in {TrackNow'} : \E rb \in {RoadbookNow'} :
                    /\ NoOverrides'
                    /\ WaypointsAreOf(reads[r].gpx, reads[r].importRoadbooks,
                                      t.trackLatLngs, rb)
                    /\ TrackIsOf(reads[r].gpx, reads[r].settings, t)]_vars

\* a run on a file with a track is suspended in its read while the session
\* holds another track with an added waypoint and a leg override
C13_Witness ==
    /\ TrackReady /\ ~NoOverrides
    /\ WaypointSet \ {0, Len(trackLatLngs) - 1} # {}
    /\ \E r \in 1..Len(reads) :
          /\ parseGPXToSegments(reads[r].gpx) # <<>>
          /\ ~TrackIsOf(reads[r].gpx, reads[r].settings, TrackNow)

----------------------------------------------------------------------------
(* Claims about clear-all *)

\* the waypoint list and labels of a track of n points with no waypoint but
\* its ends
StartAndFinishOnly(n) ==
    /\ roadbookIdx = <<0, n - 1>>
    /\ roadbookLabels = MapSet(MapSet(EmptyMap, 0, "Start"), n - 1, "Finish")

\* C14: a click on Clear on a loaded track leaves the waypoint list [0, last]
\* labelled Start and Finish and the four override maps empty, and leaves the
\* trajectory, the segment breaks and the four cumulative arrays as they were;
\* with no track loaded it changes nothing.
C14_ClearAll ==
    [][ClearClick
          => IF TrackReady
             THEN /\ StartAndFinishOnly(Len(trackLatLngs))'
                  /\ NoOverrides'
                  /\ TrackNow' = TrackNow
             ELSE /\ TrackNow' = TrackNow
                  /\ RoadbookNow' = RoadbookNow
                  /\ OverridesNow' = OverridesNow]_vars

\* a loaded track of several segments with a waypoint besides its ends and an
\* override on a leg, where Clear is clicked next
C14_Witness ==
    /\ TrackReady /\ Len(trackBreakIdx) >= 2
    /\ Len(roadbookIdx) >= 3
    /\ legCritical # EmptyMap

----------------------------------------------------------------------------
(* Claims about a calculate run that fails *)

\* the points of pts that have a latitude and a longitude
ValidPoints(pts) == Cardinality({k \in 1..Len(pts) : FinitePt(pts[k])})

\* the file is not XML, or none of its segments (its route, when it has no
\* segment) has two valid points
NoUsableSegment(gpx) ==
    \/ gpx.parsererror
    \/ /\ Len(gpx.trkseg) > 0
       /\ \A i \in 1..Len(gpx.trkseg) : ValidPoints(gpx.trkseg[i]) < 2
    \/ /\ Len(gpx.trkseg) = 0
       /\ ValidPoints(gpx.rtept) < 2

\* the r-th suspended run goes on in this step
RunResumes(r) == reads' = RemoveAt(reads, r - 1)

\* the step leaves the trajectory, the segment breaks, the cumulative arrays,
\* the waypoints with their labels and the four override maps as they were
DerivedStateKept ==
    /\ TrackNow' = TrackNow
    /\ roadbookIdx' = roadbookIdx /\ roadbookLabels' = roadbookLabels
    /\ OverridesNow' = OverridesNow

\* a speed or the downhill factor of the form is not a positive number
NonPositiveField ==
    ~(fields.speedFlat > 0) \/ ~(fields.speedVert > 0) \/ ~(fields.downhillFactor > 0)

\* C15: a calculate invocation that fails because no file is selected, because
\* a speed or the downhill factor is not positive, or because the file is
\* malformed or has no segment with two valid points, leaves the trajectory,
\* segment breaks, cumulative arrays, waypoint list, waypoint labels and leg
\* override maps exactly as they were. Calculate is the only handler that
\* assigns the trajectory and the arrays, so while a speed or the downhill
\* factor is not positive no step changes them.
C15_NonPositiveIsRefused ==
    [][NonPositiveField => TrackNow' = TrackNow]_vars

\* the failures that do occur: a click with no file selected, and a run whose
\* file is malformed or has no segment with two valid points, leave the
\* derived state as it was
C15_FailedRunKeepsState ==
    [][/\ message' \in {"Please upload a GPX file.",
                        "Please provide valid positive numbers for speeds and downhill factor."}
          => DerivedStateKept
       /\ \A r \in 1..Len(reads) :
             (RunResumes(r) /\ NoUsableSegment(reads[r].gpx))
                 => DerivedStateKept /\ message' = "No track segments found."]_vars

----------------------------------------------------------------------------
(* Claims about Save and Load *)

\* the leg of the table and the entry of the plan's legs array agree in a, b,
\* baseH, stopsMin, condPct and totalH
SameLeg(row, leg) ==
    /\ row.a = leg.a /\ row.b = leg.b
    /\ row.baseH = leg.baseH
    /\ row.stopsMin = leg.stopsMin /\ row.condPct = leg.condPct
    /\ row.totalH = leg.totalH

\* restoring the plan on the loaded track gives the waypoints and overrides the
\* session holds, and legs that agree with the plan's legs array
RestoresSession(plan) ==
    \E r \in {restorePlanFromJSON(plan, Len(trackLatLngs))} :
        /\ r.idx = roadbookIdx
        /\ r.labels = roadbookLabels
        /\ r.legLabels = legLabels
        /\ r.legStopsMin = legStopsMin
        /\ r.legCondPct = legCondPct
        /\ r.legCritical = legCritical
        /\ \E legs \in {Rerender(r.idx, r.legStopsMin, r.legCondPct)} :
              /\ Len(legs) = Len(plan.legs)
              /\ \A k \in 1..Len(legs) : SameLeg(legs[k], plan.legs[k])

\* C16: saving a plan and loading it on the same unchanged track is a round
\* trip. Save leaves the session as it is and Load takes the waypoints and the
\* overrides from the plan alone, so in every state with a track the plan
\* serializePlan writes is restored by restorePlanFromJSON to the waypoint
\* list, waypoint labels, leg labels, stops, condition and criticality maps of
\* that state, and every leg rendered from them has the a, b, baseH, stopsMin,
\* condPct and totalH of its entry in the plan's legs array.
C16_SaveLoadRoundTrip ==
    TrackReady => \E plan \in {serializePlan} : RestoresSession(plan)

\* the warning of restorePlanFromJSON
HeadsUp == "Heads-up: this saved plan may belong to a different GPX or settings."

\* C17: loading a plan whose track signature differs from the signature of the
\* loaded track in any component (point count, first coordinate, last
\* coordinate, spacingM, smoothWinM, elevDeadbandM) raises the warning, a plan
\* whose signature matches raises none, and in both cases the plan's
\* waypoints, labels and leg overrides are installed.
C17_WarnsIffSignatureDiffers ==
    [][\A plan \in PlanFiles :
          (TrackReady /\ ~IsNull(plan.signature) /\ LoadPlan(plan))
              => /\ (message' = HeadsUp)
                        <=> (trackSignature(trackLatLngs, fields) # plan.signature)
                 /\ \E r \in {restorePlanFromJSON(plan, Len(trackLatLngs))} :
                       /\ RoadbookNow' = [idx |-> r.idx, labels |-> r.labels,
                                          markers |-> r.markers]
                       /\ OverridesNow' = [legLabels |-> r.legLabels,
                                           legStopsMin |-> r.legStopsMin,
                                           legCondPct |-> r.legCondPct,
                                           legCritical |-> r.legCritical]]_vars

----------------------------------------------------------------------------
(* Claims about the markers *)

\* the trajectory indices the map markers carry
MarkerSet == {markers[k].idx : k \in 1..Len(markers)}

\* C19: once a calculate run has succeeded, in every state reached by
\* add-waypoint, marker click, clear-all and load-plan the indices carried by
\* the markers are those of the waypoint list, with exactly one marker per
\* waypoint, so that every waypoint that is not locked has a marker whose
\* click removes it.
C19_OneMarkerPerWaypoint ==
    TrackReady
        => /\ MarkerSet = WaypointSet
           /\ Len(markers) = Cardinality(WaypointSet)
           /\ Len(roadbookIdx) = Cardinality(WaypointSet)

----------------------------------------------------------------------------
(* Claims about overlapping calculate runs *)

\* the cumulative arrays are as long as the trajectory and every segment
\* break is an index of it
TrackWhole(t) ==
    /\ Len(t.cumDistKm) = Len(t.trackLatLngs)
    /\ Len(t.cumAscentM) = Len(t.trackLatLngs)
    /\ Len(t.cumDescentM) = Len(t.trackLatLngs)
    /\ Len(t.cumTimeH) = Len(t.trackLatLngs)
    /\ \A k \in 1..Len(t.trackBreakIdx) : t.trackBreakIdx[k] < Len(t.trackLatLngs)

\* C18: the file read is the only suspension point of a calculate run. Under
\* every interleaving of overlapping runs with map clicks, marker clicks,
\* override edits, clear-all and plan loads, every step leaves cumulative
\* arrays as long as the trajectory, and a step in which a suspended run goes
\* on either fails and leaves the derived state as it was, or leaves the whole
\* session as the result of that run alone: its track, its settings, Start,
\* Finish and its file's waypoints with their markers, no override, and the
\* table of these. So when the last run has finished the session is the
\* result of one run, never a mixture.
C18_RunsAreAtomic ==
    [][\E t \in {TrackNow'} : \E rb \in {RoadbookNow'} :
          /\ TrackWhole(t)
          /\ \A r \in 1..Len(reads) :
                RunResumes(r)
                    => \/ /\ message' = "No track segments found."
                          /\ DerivedStateKept
                       \/ /\ message' = ""
                          /\ TrackIsOf(reads[r].gpx, reads[r].settings, t)
                          /\ calcSettings' = reads[r].settings
                          /\ WaypointsAreOf(reads[r].gpx, reads[r].importRoadbooks,
                                            t.trackLatLngs, rb)
                          /\ \A k \in 1..Len(rb.markers) : rb.markers[k].locked
                                <=> rb.markers[k].idx \in {0, Len(t.trackLatLngs) - 1}
                          /\ NoOverrides'
                          /\ legTable' = renderRoadbooksTable(
                                 Len(t.trackLatLngs), rb.idx, t.cumDistKm, t.cumAscentM,
                                 t.cumDescentM, t.cumTimeH, EmptyMap, EmptyMap)]_vars

\* two runs on different files with a track each are suspended at once, while
\* the session holds a leg override on a track that is not the one of the run
\* started last
C18_Witness ==
    /\ TrackReady /\ legStopsMin # EmptyMap
    /\ Len(reads) = 2
    /\ reads[1].gpx # reads[2].gpx
    /\ parseGPXToSegments(reads[1].gpx) # <<>>
    /\ parseGPXToSegments(reads[2].gpx) # <<>>
    /\ ~TrackIsOf(reads[2].gpx, reads[2].settings, TrackNow)

====
